---- MODULE Spec2Model ----
(***************************************************************************)
(* Model of the NAPALM connection helper (napalm/NAPALM.py), the Nokia     *)
(* SR-OS driver (napalm/sros/sros.py) and the custom IOS driver            *)
(* (napalm/custom_napalm/ios.py).                                          *)
(*                                                                         *)
(* Device text is a sequence of tokens.  A token is either one character   *)
(* (space, newline, a content character) or one of the literal substrings  *)
(* the code searches for.                                                  *)
(***************************************************************************)
EXTENDS Integers, Sequences, FiniteSets, TLC

VARIABLES
    drivers,    \* driver objects, in order of construction
    sessions,   \* transport sessions (netmiko handles), in order of creation
    held,       \* ids of the driver objects the caller holds a reference to
    last,       \* the most recent call or event and what it did
    text,       \* the text handed to the output post-processor
    hist,       \* successive results of post-processing text
    cfg         \* the configuration session of a device: its state, the
                \* running configuration, the candidate, the last commit

vars == <<drivers, sessions, held, last, text, hist, cfg>>

\* ------------------------------------------------------------------ bounds
MaxLen      == 4    \* longest text given to the post-processor
MaxOut      == 2    \* longest raw output a device sends for one command
MaxCmds     == 2    \* longest command list given to one call
MaxDrivers  == 2    \* driver objects ever constructed
MaxSessions == 2    \* transport sessions ever created
MaxLines    == 2    \* lines a configuration is made of

\* ------------------------------------------------------------------- text
SP     == " "
NL     == "\n"
CH     == "x"
LOAD   == "Load for five secs"
TIME   == "Time source is"
BAD    == "Bad command"
CLIINV == "CLI Invalid"

Tokens == {SP, NL, CH, LOAD, TIME, BAD, CLIINV}

SeqsUpTo(S, n) == UNION {[1..k -> S] : k \in 0..n}

\* text.split("\n")
RECURSIVE SplitLines(_)
SplitLines(s) ==
    IF \A i \in 1..Len(s) : s[i] # NL
    THEN <<s>>
    ELSE LET i == CHOOSE j \in 1..Len(s) :
                      s[j] = NL /\ \A k \in 1..(j - 1) : s[k] # NL
         IN  <<SubSeq(s, 1, i - 1)>> \o SplitLines(SubSeq(s, i + 1, Len(s)))

\* "\n".join(lines)
RECURSIVE JoinLines(_)
JoinLines(ls) ==
    IF Len(ls) = 1 THEN ls[1]
    ELSE ls[1] \o <<NL>> \o JoinLines(Tail(ls))

StartsWith(line, prefix) ==
    /\ Len(line) >= Len(prefix)
    /\ SubSeq(line, 1, Len(prefix)) = prefix

\* re.sub(r"^<prefix>.*$", "", s, flags=re.M): every line that begins with
\* prefix in column 0 becomes the empty line; its newline stays.
ReSubLine(prefix, s) ==
    LET ls == SplitLines(s)
    IN  JoinLines([i \in 1..Len(ls) |->
                     IF StartsWith(ls[i], prefix) THEN <<>> ELSE ls[i]])

IsWs(t) == t \in {SP, NL}

\* str.strip()
Strip(s) ==
    IF \A i \in 1..Len(s) : IsWs(s[i]) THEN <<>>
    ELSE LET a == CHOOSE i \in 1..Len(s) :
                      ~IsWs(s[i]) /\ \A k \in 1..(i - 1) : IsWs(s[k])
             b == CHOOSE i \in 1..Len(s) :
                      ~IsWs(s[i]) /\ \A k \in (i + 1)..Len(s) : IsWs(s[k])
         IN  SubSeq(s, a, b)

LoadPattern == <<LOAD>>         \* r"^Load for five secs.*$"
TimePattern == <<TIME, SP>>     \* r"^Time source is .*$"

\* SROSDriver._send_command_postprocess
SendCommandPostprocess(output) ==
    Strip(ReSubLine(TimePattern, ReSubLine(LoadPattern, output)))

\* 'Bad command' in output or 'CLI Invalid' in output
HasMarker(output) ==
    \E i \in 1..Len(output) : output[i] \in {BAD, CLIINV}

\* a configuration is the set of its lines
Lines   == 1..MaxLines
Configs == SUBSET Lines

\* the configuration session before anything was loaded
ConfigSession(running) ==
    [state |-> "NoCandidate", mode |-> "", running |-> running,
     candidate |-> {}, typo |-> FALSE, prior |-> running]

NoConfigSession == ConfigSession({})

\* ------------------------------------------------------------- the record
NoCall ==
    [op |-> "none", drv |-> 0, tag |-> "", isList |-> FALSE, items |-> <<>>,
     returned |-> FALSE, retDrv |-> 0, retText |-> <<>>, retMap |-> <<>>,
     retAlive |-> FALSE, exc |-> "", excMsg |-> "", excCmd |-> "",
     attempts |-> <<>>, io |-> <<>>, canon |-> "", scope |-> "",
     retCfg |-> <<>>, retDiff |-> {}, src |-> <<>>]

\* one call made on a session handle
IOEvent(call, sess, cmds, out, err) ==
    [call |-> call, sess |-> sess, cmds |-> cmds, out |-> out,
     err |-> err.type, msg |-> err.msg]

NoError == [type |-> "", msg |-> ""]

\* the outcome of a call that raised e after the session calls io
Raised(e, io) ==
    [returned |-> FALSE, retText |-> <<>>, exc |-> e.type, excMsg |-> e.msg,
     io |-> io]

\* the outcome of a call that returned t after the session calls io
Returned(t, io) ==
    [returned |-> TRUE, retText |-> t, exc |-> "", excMsg |-> "", io |-> io]

\* ------------------------------------------------------------- exceptions
\* isinstance(e, cls); socket.timeout is a subclass of socket.error
IsInstance(e, cls) ==
    \/ e = cls
    \/ e = "socket.timeout" /\ cls = "socket.error"

\* names bound at module level by the import statements of each file
Imports(module) ==
    IF module = "sros"
    THEN {"socket", "telnetlib", "re", "ConnectionClosedException",
          "CommandErrorException", "ReplaceConfigException",
          "MergeConfigException", "NetworkDriver"}
    ELSE {"IOSDriver"}

\* errors a session handle raises when the transport fails
TransportErrors ==
    {[type |-> "socket.error",   msg |-> "Connection reset by peer"],
     [type |-> "EOFError",       msg |-> "telnet connection closed"],
     [type |-> "socket.timeout", msg |-> "timed out"]}

\* ------------------------------------------------------ connection opener
Tags == {"XR", "xr", "JUNIPER", "Juniper", "ios", "IOS", "junos", "sros",
         "Unable to classify"}

\* str.lower()
Lower(t) ==
    CASE t = "XR"      -> "xr"
      [] t = "JUNIPER" -> "juniper"
      [] t = "Juniper" -> "juniper"
      [] t = "IOS"     -> "ios"
      [] t = "Unable to classify" -> "unable to classify"
      [] OTHER         -> t

\* NormalizeTag without the lower() of the else branch
NormalizeTag_NoLower(dev_os) ==
    IF dev_os = "XR" THEN "iosxr"
    ELSE IF dev_os = "JUNIPER" THEN "junos"
    ELSE dev_os

\* open(): "Convert the dev_os to a stadard format needed by napalm"
NormalizeTag(dev_os) ==
    IF dev_os = "XR" THEN "iosxr"
    ELSE IF dev_os = "JUNIPER" THEN "junos"
    ELSE Lower(dev_os)

\* driver names get_network_driver resolves
Registered == {"ios", "iosxr", "junos", "nxos", "sros"}

Transports == {"ssh", "telnet"}

\* optional_args.get('transport', 'ssh')
DefaultTransport == "ssh"

\* OpenerAttempts with the Telnet-first negotiation applied to every tag
OpenerAttempts_TelnetForAll(dev_os, ok1, ok2) ==
    IF ok1
    THEN <<[transport |-> "telnet", fresh |-> TRUE, ok |-> TRUE],
           [transport |-> "telnet", fresh |-> FALSE, ok |-> ok2]>>
    ELSE <<[transport |-> "telnet", fresh |-> TRUE, ok |-> FALSE],
           [transport |-> DefaultTransport, fresh |-> TRUE, ok |-> ok2]>>

\* The device.open() calls open() makes for a canonical tag, in order.
\* fresh: the call is made on a driver object constructed just before it.
\* ok1, ok2: whether the first and the second call connect.
OpenerAttempts(dev_os, ok1, ok2) ==
    IF dev_os = "ios"
    THEN IF ok1
         THEN <<[transport |-> "telnet", fresh |-> TRUE, ok |-> TRUE],
                [transport |-> "telnet", fresh |-> FALSE, ok |-> ok2]>>
         ELSE <<[transport |-> "telnet", fresh |-> TRUE, ok |-> FALSE],
                [transport |-> DefaultTransport, fresh |-> TRUE, ok |-> ok2]>>
    ELSE <<[transport |-> DefaultTransport, fresh |-> TRUE, ok |-> ok2]>>

\* SROSDriver.__init__: a driver object without a session
NewDriver(cls, transport) ==
    [cls |-> cls, transport |-> transport, device |-> 0]

\* SROSDriver.open: self.device = self._netmiko_open(...).  When the
\* connection is made the new handle replaces whatever self.device held;
\* when it is refused the call raises and self.device is not assigned.
OpenEffect(st, d, ok) ==
    IF ok
    THEN LET s == Len(st.sessions) + 1
         IN  [drivers  |-> [st.drivers EXCEPT ![d].device = s],
              sessions |-> Append(st.sessions,
                                  [owner |-> d,
                                   transport |-> st.drivers[d].transport,
                                   state |-> "connected"])]
    ELSE st

\* Runs the attempts of plan from the i-th on.  st: drivers, sessions, the
\* driver object bound to the local name device, and the log of attempts.
RECURSIVE RunAttempts(_, _, _, _)
RunAttempts(plan, cls, st, i) ==
    IF i > Len(plan) THEN st
    ELSE LET a   == plan[i]
             ds  == IF a.fresh
                    THEN Append(st.drivers, NewDriver(cls, a.transport))
                    ELSE st.drivers
             cur == IF a.fresh THEN Len(ds) ELSE st.cur
             o   == OpenEffect([drivers |-> ds, sessions |-> st.sessions],
                               cur, a.ok)
         IN  RunAttempts(plan, cls,
                         [drivers |-> o.drivers, sessions |-> o.sessions,
                          cur |-> cur,
                          log |-> Append(st.log,
                                         [transport |-> a.transport,
                                          drv |-> cur, ok |-> a.ok])],
                         i + 1)

\* OpenerResult with the failure of the final device.open() swallowed
OpenerResult_SwallowFailure(run) ==
    [returned |-> TRUE, retDrv |-> run.cur, exc |-> ""]

\* What open() hands back after the attempts: the driver when the final
\* device.open() connected, the exception of that call otherwise.
OpenerResult(run) ==
    IF run.log[Len(run.log)].ok
    THEN [returned |-> TRUE, retDrv |-> run.cur, exc |-> ""]
    ELSE [returned |-> FALSE, retDrv |-> 0, exc |-> "ConnectionException"]

\* how many elements of the sequence q satisfy P
Count(q, P(_)) == Cardinality({i \in 1..Len(q) : P(q[i])})

\* napalm_connection.open(dev, dev_os)
OpenerOpen ==
    \E tag \in Tags, authOk \in BOOLEAN, ok1 \in BOOLEAN, ok2 \in BOOLEAN :
        LET dev_os == NormalizeTag(tag)
            call   == [NoCall EXCEPT !.op = "open", !.tag = tag]
            plan   == OpenerAttempts(dev_os, ok1, ok2)
        IN  /\ Len(drivers) + Count(plan, LAMBDA a : a.fresh) <= MaxDrivers
            /\ Len(sessions) + Count(plan, LAMBDA a : a.ok) <= MaxSessions
            /\ UNCHANGED <<text, hist, cfg>>
            /\ IF ~authOk
               THEN /\ last' = [call EXCEPT !.exc = "AuthResolutionError"]
                    /\ UNCHANGED <<drivers, sessions, held>>
               ELSE IF dev_os \notin Registered
               THEN /\ last' = [call EXCEPT !.exc = "ModuleImportError",
                                             !.canon = dev_os]
                    /\ UNCHANGED <<drivers, sessions, held>>
               ELSE LET run == RunAttempts(plan,
                                           dev_os,
                                           [drivers |-> drivers,
                                            sessions |-> sessions,
                                            cur |-> 0, log |-> <<>>], 1)
                        res == OpenerResult(run)
                    IN  /\ drivers' = run.drivers
                        /\ sessions' = run.sessions
                        /\ held' = IF res.returned
                                   THEN held \cup {res.retDrv} ELSE held
                        /\ last' = [call EXCEPT !.returned = res.returned,
                                                !.retDrv = res.retDrv,
                                                !.exc = res.exc,
                                                !.canon = dev_os,
                                                !.attempts = run.log]

\* ------------------------------------------------- driver: session control
\* The caller constructs a driver itself.
Construct ==
    \E cls \in {"sros", "custom_ios"}, tr \in Transports :
        /\ Len(drivers) < MaxDrivers
        /\ drivers' = Append(drivers, NewDriver(cls, tr))
        /\ held' = held \cup {Len(drivers) + 1}
        /\ last' = [NoCall EXCEPT !.op = "construct",
                                  !.drv = Len(drivers) + 1]
        /\ UNCHANGED <<sessions, text, hist, cfg>>

\* driver.open()
DriverOpen ==
    \E d \in held, ok \in BOOLEAN :
        LET o == OpenEffect([drivers |-> drivers, sessions |-> sessions],
                            d, ok)
        IN  /\ Len(sessions) < MaxSessions
            /\ drivers' = o.drivers
            /\ sessions' = o.sessions
            /\ last' = [NoCall EXCEPT
                          !.op = "driver_open", !.drv = d,
                          !.returned = ok,
                          !.exc = IF ok THEN "" ELSE "ConnectionException"]
            /\ UNCHANGED <<held, text, hist, cfg>>

\* SROSDriver._netmiko_close: what the call does to the driver's handle.
\* derr: the error disconnect() raises, if any.
CloseEffect(st, d, derr) ==
    LET s == st.drivers[d].device
    IN  IF s = 0
        THEN [drivers |-> st.drivers, sessions |-> st.sessions,
              io |-> <<>>, exc |-> "AttributeError"]
        ELSE IF derr.type # ""
        THEN [drivers |-> st.drivers, sessions |-> st.sessions,
              io |-> <<IOEvent("disconnect", s, <<>>, <<>>, derr)>>,
              exc |-> derr.type]
        ELSE [drivers  |-> [st.drivers EXCEPT ![d].device = 0],
              sessions |-> [st.sessions EXCEPT ![s].state = "disconnected"],
              io |-> <<IOEvent("disconnect", s, <<>>, <<>>, NoError)>>,
              exc |-> ""]

\* driver.close()
DriverClose ==
    \E d \in held :
      \E derr \in {NoError} \cup
                  (IF drivers[d].device # 0
                      /\ sessions[drivers[d].device].state = "severed"
                   THEN {e \in TransportErrors : e.type = "socket.error"}
                   ELSE {}) :
        LET c == CloseEffect([drivers |-> drivers, sessions |-> sessions],
                             d, derr)
        IN  /\ drivers' = c.drivers
            /\ sessions' = c.sessions
            /\ last' = [NoCall EXCEPT !.op = "close", !.drv = d,
                                      !.returned = (c.exc = ""),
                                      !.exc = c.exc, !.io = c.io]
            /\ UNCHANGED <<held, text, hist, cfg>>

\* errors write_channel / remote_conn.transport raise during the probe
ProbeErrors ==
    TransportErrors \cup
    {[type |-> "AttributeError",
      msg |-> "'NoneType' object has no attribute"],
     [type |-> "UnicodeDecodeError", msg |-> "can't decode byte"]}

\* IsAliveOutcome without the "self.device is None" test: the probe is then
\* a method call on None, which raises AttributeError.
IsAliveOutcome_NoNoneTest(transport, device, werr, active) ==
    LET w     == IF device = 0
                 THEN [type |-> "AttributeError",
                       msg |-> "'NoneType' object has no attribute"]
                 ELSE werr
        probe == IF device = 0 THEN <<>>
                 ELSE <<IOEvent("write_channel", device, <<>>, <<>>, werr)>>
        answer(a) == [returned |-> TRUE, retAlive |-> a, exc |-> "",
                      io |-> probe]
        raised    == [returned |-> FALSE, retAlive |-> FALSE,
                      exc |-> w.type, io |-> probe]
    IN  IF transport = "telnet"
        THEN IF w.type = "" THEN answer(TRUE)
             ELSE IF IsInstance(w.type, "UnicodeDecodeError")
             THEN answer(TRUE)
             ELSE IF IsInstance(w.type, "AttributeError")
             THEN answer(FALSE)
             ELSE raised
        ELSE IF w.type = "" THEN answer(active)
             ELSE IF \/ IsInstance(w.type, "socket.error")
                     \/ IsInstance(w.type, "EOFError")
             THEN answer(FALSE)
             ELSE raised

\* SROSDriver.is_alive for a driver with the given transport and handle.
\* werr: what the probe raises (NoError: nothing); active: the answer of
\* remote_conn.transport.is_active().
IsAliveOutcome(transport, device, werr, active) ==
    LET probe == <<IOEvent("write_channel", device, <<>>, <<>>, werr)>>
        answer(a) == [returned |-> TRUE, retAlive |-> a, exc |-> "",
                      io |-> probe]
        raised    == [returned |-> FALSE, retAlive |-> FALSE,
                      exc |-> werr.type, io |-> probe]
    IN  IF device = 0
        THEN [returned |-> TRUE, retAlive |-> FALSE, exc |-> "", io |-> <<>>]
        ELSE IF transport = "telnet"
        THEN IF werr.type = "" THEN answer(TRUE)
             ELSE IF IsInstance(werr.type, "UnicodeDecodeError")
             THEN answer(TRUE)
             ELSE IF IsInstance(werr.type, "AttributeError")
             THEN answer(FALSE)
             ELSE raised
        ELSE IF werr.type = "" THEN answer(active)
             ELSE IF \/ IsInstance(werr.type, "socket.error")
                     \/ IsInstance(werr.type, "EOFError")
             THEN answer(FALSE)
             ELSE raised

\* driver.is_alive()
IsAlive ==
    \E d \in held, werr \in {NoError} \cup ProbeErrors, active \in BOOLEAN :
        LET s == drivers[d].device
            r == IsAliveOutcome(drivers[d].transport, s, werr, active)
        IN  /\ drivers[d].cls = "sros"
            /\ s = 0 => werr = NoError /\ active
            /\ (s # 0 /\ sessions[s].state = "connected") => active
            /\ werr # NoError => active
            /\ last' = [NoCall EXCEPT !.op = "is_alive", !.drv = d,
                                      !.returned = r.returned,
                                      !.retAlive = r.retAlive,
                                      !.exc = r.exc, !.io = r.io]
            /\ UNCHANGED <<drivers, sessions, held, text, hist, cfg>>

\* The network or the device drops a connection.
Sever ==
    \E s \in 1..Len(sessions) :
        /\ sessions[s].state = "connected"
        /\ sessions' = [sessions EXCEPT ![s].state = "severed"]
        /\ last' = [NoCall EXCEPT !.op = "sever"]
        /\ UNCHANGED <<drivers, held, text, hist, cfg>>

\* the configuration operations SROSDriver does not support
UnsupportedOps ==
    {"load_replace_candidate", "load_merge_candidate", "compare_config",
     "commit_config", "discard_config", "rollback"}

\* the arguments given to an operation: which keyword arguments are passed
UnsupportedArgs(op) ==
    IF op \in {"load_replace_candidate", "load_merge_candidate"}
    THEN {<<>>, <<"filename">>, <<"config">>, <<"filename", "config">>}
    ELSE IF op = "commit_config" THEN {<<>>, <<"message">>}
    ELSE {<<>>}

\* UnsupportedOutcome returning None without raising
UnsupportedOutcome_SilentNoOp(op) ==
    Returned(<<>>, <<>>)

\* SROSDriver.load_replace_candidate .. rollback: the body of each is
\* raise NotImplementedError('Not implemented for this platform')
UnsupportedOutcome(op) ==
    Raised([type |-> "NotImplementedError",
            msg |-> "Not implemented for this platform"], <<>>)

\* load_replace_candidate, load_merge_candidate, compare_config,
\* commit_config, discard_config or rollback on an SR-OS driver
Unsupported ==
    \E d \in {x \in held : drivers[x].cls = "sros"}, op \in UnsupportedOps :
      \E args \in UnsupportedArgs(op) :
        LET r == UnsupportedOutcome(op)
        IN  /\ last' = [NoCall EXCEPT !.op = op, !.drv = d,
                                      !.items = args,
                                      !.returned = r.returned,
                                      !.exc = r.exc, !.excMsg = r.excMsg,
                                      !.io = r.io]
            /\ UNCHANGED <<drivers, sessions, held, text, hist, cfg>>

Init ==
    /\ drivers = <<>>
    /\ sessions = <<>>
    /\ held = {}
    /\ last = NoCall
    /\ text = <<>>
    /\ hist = <<>>
    /\ cfg = NoConfigSession

Next ==
    \/ OpenerOpen
    \/ Construct
    \/ DriverOpen
    \/ DriverClose
    \/ IsAlive
    \/ Unsupported
    \/ Sever

Spec == Init /\ [][Next]_vars

\* ------------------------------------------------ driver: command executor
Cmds == {"show uptime", "bogus-cmd"}

\* A command argument: a string (isList FALSE, items holds it) or a list.
StringArgs == {[isList |-> FALSE, items |-> <<c>>] : c \in Cmds}
ListArgs   == {[isList |-> TRUE, items |-> q] : q \in SeqsUpTo(Cmds, MaxCmds)}

OutTokens  == {CH, LOAD, BAD, CLIINV}
RawOutputs == SeqsUpTo(OutTokens, MaxOut)

\* What one call on session handle s can do: return raw text while the
\* session is connected, or raise a transport error.
Responses(s) ==
    (IF s # 0 /\ sessions[s].state = "connected"
     THEN {[err |-> NoError, out |-> o] : o \in RawOutputs}
     ELSE {})
    \cup {[err |-> e, out |-> <<>>] : e \in TransportErrors}

CmdOps == {"send_command", "cli", "config_commands", "save_config",
           "get_config"}

\* The caller has read the outcome of its previous command call.
CallerIdle == last.op \notin CmdOps

\* The caller reads the outcome of a command call and goes on.
Resume ==
    /\ ~CallerIdle
    /\ last' = NoCall
    /\ UNCHANGED <<drivers, sessions, held, text, hist, cfg>>

\* "except (socket.error, EOFError) as e: raise ConnectionClosedException(
\* str(e))" in the given module, reached by exception e.  The names of the
\* clause are looked up when the exception arrives.
ExceptTransport(module, e) ==
    IF "socket" \notin Imports(module)
    THEN [type |-> "NameError", msg |-> "name 'socket' is not defined"]
    ELSE IF IsInstance(e.type, "socket.error") \/ IsInstance(e.type, "EOFError")
    THEN IF "ConnectionClosedException" \in Imports(module)
         THEN [type |-> "ConnectionClosedException", msg |-> e.msg]
         ELSE [type |-> "NameError",
               msg |-> "name 'ConnectionClosedException' is not defined"]
    ELSE e

NoneError(attr) ==
    [type |-> "AttributeError",
     msg |-> "'NoneType' object has no attribute"]

\* CandidateAccepted testing for 'Bad command' only
CandidateAccepted_BadOnly(output) ==
    \A i \in 1..Len(output) : output[i] # BAD

\* _send_command, line 96: the candidate's output is accepted
CandidateAccepted(output) == ~HasMarker(output)

\* _send_command, lines 94-97: the number of candidates sent
RECURSIVE CandidateLoop(_, _, _)
\* CandidateLoop without the break of line 97: only a failing send stops it
CandidateLoop_NoBreak(n, resps, i) ==
    LET failed == {j \in i..n : resps[j].err # [type |-> "", msg |-> ""]}
    IN  IF failed = {} THEN n
        ELSE CHOOSE j \in failed : \A k \in failed : j <= k

CandidateLoop(n, resps, i) ==
    IF resps[i].err # NoError THEN i
    ELSE IF CandidateAccepted(resps[i].out) THEN i
    ELSE IF i = n THEN i
    ELSE CandidateLoop(n, resps, i + 1)

\* SROSDriver._send_command(command) on handle device; resps[i] is what
\* the i-th send_command call does.
SendCommandOutcome(device, arg, resps) ==
    LET n  == Len(arg.items)
        k  == IF arg.isList THEN CandidateLoop(n, resps, 1) ELSE 1
        io == [i \in 1..k |->
                 IOEvent("send_command", device, <<arg.items[i]>>,
                         resps[i].out, resps[i].err)]
    IN  IF arg.isList /\ n = 0
        THEN Raised([type |-> "UnboundLocalError",
                     msg |-> "local variable 'output' referenced before assignment"],
                    <<>>)
        ELSE IF device = 0
        THEN Raised(ExceptTransport("sros", NoneError("send_command")), <<>>)
        ELSE IF resps[k].err # NoError
        THEN Raised(ExceptTransport("sros", resps[k].err), io)
        ELSE Returned(SendCommandPostprocess(resps[k].out), io)

\* _send_command(command)
SendCommand ==
    /\ CallerIdle
    /\ \E d \in {x \in held : drivers[x].cls = "sros"},
          arg \in StringArgs \cup ListArgs :
         \E resps \in [1..Len(arg.items) -> Responses(drivers[d].device)] :
           LET r == SendCommandOutcome(drivers[d].device, arg, resps)
           IN  /\ last' = [NoCall EXCEPT !.op = "send_command", !.drv = d,
                                         !.isList = arg.isList,
                                         !.items = arg.items,
                                         !.returned = r.returned,
                                         !.retText = r.retText,
                                         !.exc = r.exc, !.excMsg = r.excMsg,
                                         !.io = r.io]
               /\ UNCHANGED <<drivers, sessions, held, text, hist, cfg>>

EmptyMap == [c \in {} |-> <<>>]

\* MapPut keeping the value a key already has
MapPut_KeepFirst(map, key, value) ==
    [c \in DOMAIN map \cup {key} |->
        IF c \in DOMAIN map THEN map[c] ELSE value]

\* cli_output[command] = output
MapPut(map, key, value) ==
    [c \in DOMAIN map \cup {key} |-> IF c = key THEN value ELSE map[c]]

\* CliRejects testing for 'Bad command' only
CliRejects_BadOnly(output) ==
    \E i \in 1..Len(output) : output[i] = BAD

\* cli, line 200: the output of the command is an invalid-command answer
CliRejects(output) == HasMarker(output)

\* cli, lines 198-204: the loop from the i-th command on
RECURSIVE CliLoop(_, _, _, _, _, _)
CliLoop(device, items, resps, i, map, io) ==
    IF i > Len(items)
    THEN [returned |-> TRUE, retMap |-> map, exc |-> "", excMsg |-> "",
          excCmd |-> "", io |-> io]
    ELSE LET r == SendCommandOutcome(device,
                                     [isList |-> FALSE,
                                      items |-> <<items[i]>>],
                                     <<resps[i]>>)
         IN  IF r.exc # ""
             THEN [returned |-> FALSE, retMap |-> EmptyMap, exc |-> r.exc,
                   excMsg |-> r.excMsg, excCmd |-> "", io |-> io \o r.io]
             ELSE IF CliRejects(r.retText)
             THEN [returned |-> FALSE, retMap |-> EmptyMap,
                   exc |-> "ValueError",
                   excMsg |-> "Unable to execute command",
                   excCmd |-> items[i], io |-> io \o r.io]
             ELSE CliLoop(device, items, resps, i + 1,
                          MapPut(map, items[i], r.retText), io \o r.io)

\* SROSDriver.cli(commands)
CliOutcome(device, arg, resps) ==
    IF ~arg.isList
    THEN [returned |-> FALSE, retMap |-> EmptyMap, exc |-> "TypeError",
          excMsg |-> "Please enter a valid list of commands!",
          excCmd |-> "", io |-> <<>>]
    ELSE CliLoop(device, arg.items, resps, 1, EmptyMap, <<>>)

\* cli(commands)
Cli ==
    /\ CallerIdle
    /\ \E d \in {x \in held : drivers[x].cls = "sros"},
          arg \in StringArgs \cup ListArgs :
         \E resps \in [1..Len(arg.items) -> Responses(drivers[d].device)] :
           LET r == CliOutcome(drivers[d].device, arg, resps)
           IN  /\ last' = [NoCall EXCEPT !.op = "cli", !.drv = d,
                                         !.isList = arg.isList,
                                         !.items = arg.items,
                                         !.returned = r.returned,
                                         !.retMap = r.retMap,
                                         !.exc = r.exc, !.excMsg = r.excMsg,
                                         !.excCmd = r.excCmd, !.io = r.io]
               /\ UNCHANGED <<drivers, sessions, held, text, hist, cfg>>

\* _send_config_set(command) of the driver class cls
SendConfigSetOutcome(cls, device, items, resp) ==
    LET io == <<IOEvent("send_config_set", device, items, resp.out, resp.err)>>
    IN  IF device = 0
        THEN Raised(ExceptTransport(cls, NoneError("send_config_set")), <<>>)
        ELSE IF resp.err # NoError
        THEN Raised(ExceptTransport(cls, resp.err), io)
        ELSE Returned(resp.out, io)

\* ConfigCommandsOutcome with the type test made after the send
ConfigCommandsOutcome_TestAfterSend(cls, device, arg, resp) ==
    LET r == SendConfigSetOutcome(cls, device, arg.items, resp)
    IN  IF r.exc # "" THEN r
        ELSE IF ~arg.isList
        THEN Raised([type |-> "TypeError",
                     msg |-> "Please enter a valid list of commands!"], r.io)
        ELSE r

\* config_commands(commands) of the driver class cls
ConfigCommandsOutcome(cls, device, arg, resp) ==
    IF ~arg.isList
    THEN Raised([type |-> "TypeError",
                 msg |-> "Please enter a valid list of commands!"], <<>>)
    ELSE SendConfigSetOutcome(cls, device, arg.items, resp)

\* config_commands(commands)
ConfigCommands ==
    /\ CallerIdle
    /\ \E d \in {x \in held : drivers[x].cls \in {"sros", "custom_ios"}},
          arg \in StringArgs \cup ListArgs :
         \E resp \in Responses(drivers[d].device) :
           LET r == ConfigCommandsOutcome(drivers[d].cls, drivers[d].device,
                                          arg, resp)
           IN  /\ last' = [NoCall EXCEPT !.op = "config_commands", !.drv = d,
                                         !.isList = arg.isList,
                                         !.items = arg.items,
                                         !.returned = r.returned,
                                         !.retText = r.retText,
                                         !.exc = r.exc, !.excMsg = r.excMsg,
                                         !.io = r.io]
               /\ UNCHANGED <<drivers, sessions, held, text, hist, cfg>>

\* save_config() of the driver class cls
SaveConfigOutcome(cls, device, resp) ==
    IF cls = "sros"
    THEN LET r == SendCommandOutcome(device,
                                     [isList |-> TRUE,
                                      items |-> <<"admin save">>],
                                     <<resp>>)
         IN  IF r.exc = "" THEN r
             ELSE Raised(ExceptTransport(cls, [type |-> r.exc,
                                               msg |-> r.excMsg]), r.io)
    ELSE LET io == <<IOEvent("save_config", device, <<>>, resp.out,
                             resp.err)>>
         IN  IF device = 0
             THEN Raised(ExceptTransport(cls, NoneError("save_config")), <<>>)
             ELSE IF resp.err # NoError
             THEN Raised(ExceptTransport(cls, resp.err), io)
             ELSE Returned(resp.out, io)

\* save_config()
SaveConfig ==
    /\ CallerIdle
    /\ \E d \in {x \in held : drivers[x].cls \in {"sros", "custom_ios"}} :
         \E resp \in Responses(drivers[d].device) :
           LET r == SaveConfigOutcome(drivers[d].cls, drivers[d].device, resp)
           IN  /\ last' = [NoCall EXCEPT !.op = "save_config", !.drv = d,
                                         !.returned = r.returned,
                                         !.retText = r.retText,
                                         !.exc = r.exc, !.excMsg = r.excMsg,
                                         !.io = r.io]
               /\ UNCHANGED <<drivers, sessions, held, text, hist, cfg>>

\* the values of the parameter retrieve
Scopes == {"startup", "running", "candidate", "all"}

\* configs = {'startup': '', 'running': '', 'candidate': ''}
EmptyConfigs == [startup |-> <<>>, running |-> <<>>, candidate |-> <<>>]

\* GetConfigOutcome sending the command whatever retrieve is
GetConfigOutcome_AlwaysFetch(device, retrieve, resp) ==
    LET r == SendCommandOutcome(device,
                                [isList |-> FALSE,
                                 items |-> <<"admin display-config">>],
                                <<resp>>)
    IN  IF r.exc # ""
        THEN [returned |-> FALSE, retCfg |-> <<>>, exc |-> r.exc,
              excMsg |-> r.excMsg, io |-> r.io]
        ELSE [returned |-> TRUE,
              retCfg |-> [EmptyConfigs EXCEPT !.running = r.retText],
              exc |-> "", excMsg |-> "", io |-> r.io]

\* SROSDriver.get_config(retrieve)
GetConfigOutcome(device, retrieve, resp) ==
    IF retrieve \in {"running", "all"}
    THEN LET r == SendCommandOutcome(device,
                                     [isList |-> FALSE,
                                      items |-> <<"admin display-config">>],
                                     <<resp>>)
         IN  IF r.exc # ""
             THEN [returned |-> FALSE, retCfg |-> <<>>, exc |-> r.exc,
                   excMsg |-> r.excMsg, io |-> r.io]
             ELSE [returned |-> TRUE,
                   retCfg |-> [EmptyConfigs EXCEPT !.running = r.retText],
                   exc |-> "", excMsg |-> "", io |-> r.io]
    ELSE [returned |-> TRUE, retCfg |-> EmptyConfigs, exc |-> "",
          excMsg |-> "", io |-> <<>>]

\* get_config(retrieve)
GetConfig ==
    /\ CallerIdle
    /\ \E d \in {x \in held : drivers[x].cls = "sros"}, retrieve \in Scopes :
         \E resp \in Responses(drivers[d].device) :
           LET r == GetConfigOutcome(drivers[d].device, retrieve, resp)
           IN  /\ last' = [NoCall EXCEPT !.op = "get_config", !.drv = d,
                                         !.scope = retrieve,
                                         !.returned = r.returned,
                                         !.retCfg = r.retCfg,
                                         !.exc = r.exc, !.excMsg = r.excMsg,
                                         !.io = r.io]
               /\ UNCHANGED <<drivers, sessions, held, text, hist, cfg>>

\* One SR-OS driver and one custom IOS driver, each constructed and opened.
InitCmd ==
    /\ drivers = <<[NewDriver("sros", "ssh") EXCEPT !.device = 1],
                   [NewDriver("custom_ios", "telnet") EXCEPT !.device = 2]>>
    /\ sessions = <<[owner |-> 1, transport |-> "ssh", state |-> "connected"],
                    [owner |-> 2, transport |-> "telnet",
                     state |-> "connected"]>>
    /\ held = {1, 2}
    /\ last = NoCall
    /\ text = <<>>
    /\ hist = <<>>
    /\ cfg = NoConfigSession

NextCmd ==
    \/ SendCommand
    \/ Cli
    \/ ConfigCommands
    \/ SaveConfig
    \/ GetConfig
    \/ Resume
    \/ DriverClose
    \/ Sever

SpecCmd == InitCmd /\ [][NextCmd]_vars

\* ------------------------------------------------- configuration manager
\* The configuration operations of a driver that supports them, as the
\* design describes them (section 4.4) and as the driver tests use them.

\* A candidate source: the lines of the file or text, whether the device
\* parser rejects it, and which of filename= / config= the caller passed.
Sources ==
    [lines : Configs, typo : BOOLEAN,
     args : {<<>>, <<"filename">>, <<"config">>, <<"filename", "config">>}]

LoadOps == {"load_replace_candidate", "load_merge_candidate"}

ModeOf(op) == IF op = "load_replace_candidate" THEN "replace" ELSE "merge"

\* ReplaceConfigException / MergeConfigException
RejectionOf(mode) ==
    IF mode = "replace"
    THEN [type |-> "ReplaceConfigException", msg |-> "candidate rejected"]
    ELSE [type |-> "MergeConfigException", msg |-> "candidate rejected"]

\* the configuration the candidate stands for
CandidateOf(c, mode, src) ==
    IF mode = "replace" THEN src.lines ELSE c.running \cup src.lines

\* the text compare_config returns: the lines the candidate adds and drops
DiffText(running, candidate) ==
    {<<"+", l>> : l \in candidate \ running}
    \cup {<<"-", l>> : l \in running \ candidate}

\* LoadOutcome with a rejected candidate leaving its lines in the running
\* configuration
LoadOutcome_PartialApply(c, mode, src, atLoad) ==
    IF Len(src.args) # 1
    THEN [cfg |-> c,
          exc |-> [type |-> "InvalidArgument",
                   msg |-> "exactly one of filename and config"]]
    ELSE IF src.typo /\ atLoad
    THEN [cfg |-> [c EXCEPT !.running = c.running \cup src.lines],
          exc |-> RejectionOf(mode)]
    ELSE [cfg |-> [c EXCEPT !.state = "CandidateLoaded", !.mode = mode,
                            !.candidate = CandidateOf(c, mode, src),
                            !.typo = src.typo],
          exc |-> NoError]

\* loadReplaceCandidate / loadMergeCandidate.  atLoad: the dialect checks
\* the candidate when it is loaded (otherwise when it is committed).
LoadOutcome(c, mode, src, atLoad) ==
    IF Len(src.args) # 1
    THEN [cfg |-> c,
          exc |-> [type |-> "InvalidArgument",
                   msg |-> "exactly one of filename and config"]]
    ELSE IF src.typo /\ atLoad
    THEN [cfg |-> c, exc |-> RejectionOf(mode)]
    ELSE [cfg |-> [c EXCEPT !.state = "CandidateLoaded", !.mode = mode,
                            !.candidate = CandidateOf(c, mode, src),
                            !.typo = src.typo],
          exc |-> NoError]

\* load_replace_candidate(...) / load_merge_candidate(...)
LoadCandidate ==
    \E op \in LoadOps, src \in Sources, atLoad \in BOOLEAN :
        LET r == LoadOutcome(cfg, ModeOf(op), src, atLoad)
        IN  /\ cfg' = r.cfg
            /\ last' = [NoCall EXCEPT !.op = op, !.src = src.args,
                                      !.returned = (r.exc = NoError),
                                      !.exc = r.exc.type,
                                      !.excMsg = r.exc.msg]
            /\ UNCHANGED <<drivers, sessions, held, text, hist>>

\* compareConfig: the pending diff, empty unless a candidate is loaded
CompareDiff(c) ==
    IF c.state = "CandidateLoaded"
    THEN DiffText(c.running, c.candidate)
    ELSE {}

\* compare_config()
CompareConfig ==
    /\ last' = [NoCall EXCEPT !.op = "compare_config", !.returned = TRUE,
                              !.retDiff = CompareDiff(cfg)]
    /\ UNCHANGED <<drivers, sessions, held, text, hist, cfg>>

\* CommitOutcome making the candidate the running configuration while the
\* candidate stays loaded
CommitOutcome_StaysLoaded(c) ==
    IF c.typo
    THEN [cfg |-> c, exc |-> RejectionOf(c.mode)]
    ELSE [cfg |-> [c EXCEPT !.running = c.candidate, !.prior = c.running],
          exc |-> NoError]

\* commitConfig: CandidateLoaded -> Committed
CommitOutcome(c) ==
    IF c.typo
    THEN [cfg |-> c, exc |-> RejectionOf(c.mode)]
    ELSE [cfg |-> [c EXCEPT !.state = "Committed",
                            !.running = c.candidate,
                            !.prior = c.running,
                            !.candidate = {}],
          exc |-> NoError]

\* commit_config()
CommitConfig ==
    LET r == CommitOutcome(cfg)
    IN  /\ cfg.state = "CandidateLoaded"
        /\ cfg' = r.cfg
        /\ last' = [NoCall EXCEPT !.op = "commit_config",
                                  !.returned = (r.exc = NoError),
                                  !.exc = r.exc.type, !.excMsg = r.exc.msg]
        /\ UNCHANGED <<drivers, sessions, held, text, hist>>

\* DiscardEffect leaving the candidate loaded
DiscardEffect_KeepsCandidate(c) == c

\* discardConfig: CandidateLoaded -> Discarded, otherwise nothing to do
DiscardEffect(c) ==
    IF c.state = "CandidateLoaded"
    THEN [c EXCEPT !.state = "Discarded", !.mode = "", !.candidate = {},
                   !.typo = FALSE]
    ELSE c

\* discard_config()
DiscardConfig ==
    /\ cfg' = DiscardEffect(cfg)
    /\ last' = [NoCall EXCEPT !.op = "discard_config", !.returned = TRUE]
    /\ UNCHANGED <<drivers, sessions, held, text, hist>>

\* RollbackEffect taking back only the lines the commit added
RollbackEffect_Partial(c) ==
    [c EXCEPT !.running = c.running \cap c.prior, !.prior = c.running]

\* rollback: Committed -> Committed with the configuration of before the
\* most recent commit
RollbackEffect(c) ==
    [c EXCEPT !.running = c.prior, !.prior = c.running]

\* rollback()
Rollback ==
    /\ cfg.state = "Committed"
    /\ cfg' = RollbackEffect(cfg)
    /\ last' = [NoCall EXCEPT !.op = "rollback", !.returned = TRUE]
    /\ UNCHANGED <<drivers, sessions, held, text, hist>>

\* A device with some initial configuration and no candidate.
InitCfg ==
    /\ drivers = <<>>
    /\ sessions = <<>>
    /\ held = {}
    /\ last = NoCall
    /\ text = <<>>
    /\ hist = <<>>
    /\ \E initial \in Configs : cfg = ConfigSession(initial)

NextCfg ==
    \/ LoadCandidate
    \/ CompareConfig
    \/ CommitConfig
    \/ DiscardConfig
    \/ Rollback

SpecCfg == InitCfg /\ [][NextCfg]_vars

\* sessions of driver d that are connected
LiveSessions(d) ==
    {s \in 1..Len(sessions) :
        sessions[s].owner = d /\ sessions[s].state = "connected"}

\* C1: a driver never has two connected sessions: no session is created
\* for a driver while an earlier session of that driver is still connected.
C1_AtMostOneLiveSession ==
    \A d \in 1..Len(drivers) : Cardinality(LiveSessions(d)) <= 1

\* C2: when open() returns a driver, the caller holds it and its handle is
\* a connected session of that driver; when open() raises, nothing is
\* returned and the caller holds none of the driver objects the call made.
C2_ReturnedDriverAlive ==
    last.op = "open" =>
        /\ last.returned = (last.exc = "")
        /\ last.returned =>
              /\ last.retDrv \in held
              /\ drivers[last.retDrv].device # 0
              /\ sessions[drivers[last.retDrv].device].owner = last.retDrv
              /\ sessions[drivers[last.retDrv].device].state = "connected"
        /\ last.exc # "" =>
              /\ last.retDrv = 0
              /\ \A i \in 1..Len(last.attempts) :
                     last.attempts[i].drv \notin held

\* open() returned a driver after the Telnet attempt failed
C2_Witness ==
    /\ last.op = "open"
    /\ last.returned
    /\ Len(last.attempts) = 2
    /\ ~last.attempts[1].ok
    /\ drivers[last.retDrv].transport = "ssh"

\* C3: once a driver class is selected, tag ios tries Telnet first and SSH
\* exactly when that Telnet attempt raised, once, an SSH failure then
\* reaching the caller; any other tag makes one SSH attempt and no Telnet
\* attempt.
C3_NegotiationOrder ==
    (last.op = "open"
        /\ last.exc \notin {"AuthResolutionError", "ModuleImportError"}) =>
        LET a == last.attempts
        IN  /\ a # <<>>
            /\ IF NormalizeTag(last.tag) = "ios"
               THEN /\ a[1].transport = "telnet"
                    /\ Count(a, LAMBDA x : x.transport = "ssh")
                          = (IF a[1].ok THEN 0 ELSE 1)
                    /\ \A i \in 1..Len(a) :
                          a[i].transport = "ssh" =>
                              /\ i = 2
                              /\ Len(a) = 2
                              /\ ~a[i].ok => last.exc # "" /\ ~last.returned
               ELSE /\ Len(a) = 1
                    /\ a[1].transport = "ssh"

\* tag ios: Telnet failed, the one SSH attempt failed too, the caller got
\* the error
C3_Witness ==
    /\ last.op = "open"
    /\ NormalizeTag(last.tag) = "ios"
    /\ Len(last.attempts) = 2
    /\ last.attempts[1].transport = "telnet" /\ ~last.attempts[1].ok
    /\ last.attempts[2].transport = "ssh" /\ ~last.attempts[2].ok
    /\ last.exc = "ConnectionException"

\* C8: is_alive never raises; a probe that raised gives a not-alive answer.
C8_IsAliveNeverRaises ==
    last.op = "is_alive" =>
        /\ last.exc = ""
        /\ (\E i \in 1..Len(last.io) : last.io[i].err # "") =>
              last.returned /\ ~last.retAlive

\* C9: with no session handle is_alive answers not-alive and makes no call
\* on any session, whatever the transport.
C9_NoSessionNoIO ==
    (last.op = "is_alive" /\ drivers[last.drv].device = 0) =>
        /\ last.returned
        /\ ~last.retAlive
        /\ last.exc = ""
        /\ last.io = <<>>

\* is_alive on an SSH driver whose session was closed
C9_Witness ==
    /\ last.op = "is_alive"
    /\ drivers[last.drv].device = 0
    /\ drivers[last.drv].transport = "ssh"
    /\ \E s \in 1..Len(sessions) :
          sessions[s].owner = last.drv /\ sessions[s].state = "disconnected"
    /\ ~last.retAlive

\* the calls of the last operation that raised a transport error
FailedIO == {i \in 1..Len(last.io) : last.io[i].err # ""}

\* C4: a socket error, end-of-stream error or timeout raised by the session
\* during a command operation of either driver reaches the caller as
\* ConnectionClosedException carrying the message of the original error.
C4_TransportErrorsBecomeConnectionClosed ==
    (last.op \in CmdOps /\ FailedIO # {}) =>
        /\ last.exc = "ConnectionClosedException"
        /\ \A i \in FailedIO : last.excMsg = last.io[i].msg

\* C5: cli fails as a whole, with the error naming the command, when the
\* post-processed output of a command carries an invalid-command marker;
\* no mapping is returned then, and a returned mapping holds no marked
\* output.
C5_CliAllOrNothing ==
    last.op = "cli" =>
        LET bad == {i \in 1..Len(last.io) :
                      /\ last.io[i].err = ""
                      /\ HasMarker(SendCommandPostprocess(last.io[i].out))}
        IN  /\ bad # {} =>
                  /\ ~last.returned
                  /\ DOMAIN last.retMap = {}
                  /\ last.exc = "ValueError"
                  /\ \A i \in bad : last.io[i].cmds = <<last.excCmd>>
            /\ last.returned =>
                  \A c \in DOMAIN last.retMap : ~HasMarker(last.retMap[c])

\* cli(['show uptime', 'bogus-cmd']) where bogus-cmd answers CLI Invalid
C5_Witness ==
    /\ last.op = "cli"
    /\ last.items = <<"show uptime", "bogus-cmd">>
    /\ Len(last.io) = 2
    /\ last.io[1].out = <<CH>>
    /\ last.io[2].out = <<CLIINV>>
    /\ last.exc = "ValueError"
    /\ last.excCmd = "bogus-cmd"

\* a candidate list sent to an open session, every send answered
CandidatesAnswered ==
    /\ last.op = "send_command"
    /\ last.isList
    /\ last.items # <<>>
    /\ drivers[last.drv].device # 0
    /\ FailedIO = {}

\* The result of the candidate list: the post-processed output of the
\* first candidate that passes the test ok, else that of the last one.
CandidateResult(ok(_)) ==
    LET io   == last.io
        good == {i \in 1..Len(io) : ok(io[i].out)}
    IN  /\ last.returned
        /\ \A i \in 1..Len(io) : io[i].cmds = <<last.items[i]>>
        /\ IF good # {}
           THEN \E i \in good :
                   /\ \A j \in good : i <= j
                   /\ last.retText = SendCommandPostprocess(io[i].out)
           ELSE /\ Len(io) = Len(last.items)
                /\ last.retText = SendCommandPostprocess(io[Len(io)].out)

\* C6 as stated: the result of a candidate list is the post-processed
\* output of the first candidate whose post-processed output carries no
\* marker, or of the last candidate when all carry one.
C6_FirstNormalizedUnmarked ==
    CandidatesAnswered =>
        CandidateResult(LAMBDA o : ~HasMarker(SendCommandPostprocess(o)))

\* C6 amended: the result of a candidate list is the post-processed output
\* of the first candidate whose raw output carries no marker, or of the
\* last candidate when every raw output carries one; the call does not
\* fail.
C6_FirstRawUnmarked ==
    CandidatesAnswered => CandidateResult(LAMBDA o : ~HasMarker(o))

\* the first candidate's marker sits in a banner line, the second
\* candidate is sent and its output returned
C6_Witness ==
    /\ CandidatesAnswered
    /\ Len(last.io) = 2
    /\ last.io[1].out = <<LOAD, BAD>>
    /\ last.io[2].out = <<CH>>
    /\ last.retText = <<CH>>

\* C10: config_commands with a non-list raises TypeError before any call
\* on the session, in both drivers; with a list and an answering session
\* it makes one send_config_set call with the whole list and returns the
\* transcript unchanged.
C10_ConfigCommands ==
    last.op = "config_commands" =>
        /\ ~last.isList =>
              /\ last.exc = "TypeError"
              /\ ~last.returned
              /\ last.io = <<>>
        /\ (last.isList /\ drivers[last.drv].device # 0 /\ FailedIO = {}) =>
              /\ last.returned
              /\ Len(last.io) = 1
              /\ last.io[1].call = "send_config_set"
              /\ last.io[1].cmds = last.items
              /\ last.retText = last.io[1].out

\* the custom IOS driver returned a transcript that post-processing would
\* have changed
C10_Witness ==
    /\ last.op = "config_commands"
    /\ drivers[last.drv].cls = "custom_ios"
    /\ last.isList
    /\ Len(last.items) = 2
    /\ last.returned
    /\ last.retText # SendCommandPostprocess(last.retText)

\* C11: each of load_replace_candidate, load_merge_candidate,
\* compare_config, commit_config, discard_config and rollback on the SR-OS
\* driver raises NotImplementedError, whatever the arguments and whether or
\* not a session is open; it makes no call on a session and leaves the
\* drivers, their handles and the sessions as they were.
C11_UnsupportedSignalsNotImplemented ==
    [][last'.op \in UnsupportedOps =>
          /\ last'.exc = "NotImplementedError"
          /\ ~last'.returned
          /\ last'.io = <<>>
          /\ UNCHANGED <<drivers, sessions, held>>]_vars

\* rollback() refused on a driver whose session is connected
C11_Witness ==
    /\ last.op = "rollback"
    /\ drivers[last.drv].device # 0
    /\ sessions[drivers[last.drv].device].state = "connected"
    /\ last.exc = "NotImplementedError"

\* C12: get_config returns a mapping with exactly the roles startup,
\* running and candidate, startup and candidate empty; for retrieve startup
\* or candidate it returns with running empty and sends nothing; for
\* retrieve running or all, on an answering session, running is the
\* post-processed output of one 'admin display-config' command.
C12_GetConfig ==
    last.op = "get_config" =>
        /\ last.returned =>
              /\ DOMAIN last.retCfg = {"startup", "running", "candidate"}
              /\ last.retCfg.startup = <<>>
              /\ last.retCfg.candidate = <<>>
        /\ last.scope \in {"startup", "candidate"} =>
              /\ last.returned
              /\ last.retCfg.running = <<>>
              /\ last.io = <<>>
        /\ (/\ last.scope \in {"running", "all"}
            /\ drivers[last.drv].device # 0
            /\ FailedIO = {}) =>
              /\ last.returned
              /\ Len(last.io) = 1
              /\ last.io[1].call = "send_command"
              /\ last.io[1].cmds = <<"admin display-config">>
              /\ last.retCfg.running = SendCommandPostprocess(last.io[1].out)

\* get_config('all') returned the running configuration the device sent
C12_Witness ==
    /\ last.op = "get_config"
    /\ last.scope = "all"
    /\ last.returned
    /\ last.io[1].out = <<CH, CH>>
    /\ last.retCfg.running = <<CH, CH>>
    /\ last.retCfg.startup = <<>>

\* open() got past the credential lookup, so the tag was converted
TagConverted ==
    last.op = "open" /\ last.exc # "AuthResolutionError"

\* C13 as stated: XR gives iosxr, JUNIPER gives junos, any other tag its
\* lower-cased form, and the letter case of the tag does not matter: tags
\* that differ only in case give the same canonical tag.
C13_CaseInsensitiveTags ==
    TagConverted =>
        last.canon = (IF Lower(last.tag) = "xr" THEN "iosxr"
                      ELSE IF Lower(last.tag) = "juniper" THEN "junos"
                      ELSE Lower(last.tag))

\* C13 amended: XR gives iosxr and JUNIPER gives junos, matched exactly;
\* every other tag gives its lower-cased form (ios and IOS give ios, junos
\* gives junos, xr gives xr, Juniper gives juniper); the driver returned is
\* the one of the canonical tag.
C13_TagNormalization ==
    TagConverted =>
        /\ last.tag = "XR" => last.canon = "iosxr"
        /\ last.tag = "JUNIPER" => last.canon = "junos"
        /\ last.tag \in {"ios", "IOS"} => last.canon = "ios"
        /\ last.tag = "junos" => last.canon = "junos"
        /\ last.tag = "xr" => last.canon = "xr"
        /\ last.tag = "Juniper" => last.canon = "juniper"
        /\ last.tag \notin {"XR", "JUNIPER"} => last.canon = Lower(last.tag)
        /\ last.returned => drivers[last.retDrv].cls = last.canon

\* open(dev, 'IOS') returned an ios driver
C13_Witness ==
    /\ last.op = "open"
    /\ last.tag = "IOS"
    /\ last.canon = "ios"
    /\ last.returned
    /\ drivers[last.retDrv].cls = "ios"

\* C14: a tag holding the OS-detection failure text makes open() fail with
\* UnknownDeviceError, with no driver selected and no transport attempted.
C14_UnableSentinelRejected ==
    (TagConverted /\ last.tag = "Unable to classify") =>
        /\ last.exc = "UnknownDeviceError"
        /\ ~last.returned
        /\ last.attempts = <<>>

Rejections == {"ReplaceConfigException", "MergeConfigException"}

\* C15: a successful commit_config of a loaded candidate ends in Committed
\* with the candidate as running configuration; compare_config in
\* Committed returns the empty diff; and the state goes from Committed to
\* CandidateLoaded only by a successful load_replace_candidate or
\* load_merge_candidate.
C15_CommitPath ==
    [][/\ (last'.op = "commit_config" /\ last'.returned) =>
             /\ cfg'.state = "Committed"
             /\ cfg'.running = cfg.candidate
       /\ (last'.op = "compare_config" /\ cfg.state = "Committed") =>
             /\ last'.returned
             /\ last'.retDiff = {}
       /\ (cfg.state = "Committed" /\ cfg'.state = "CandidateLoaded") =>
             /\ last'.op \in LoadOps
             /\ last'.returned]_vars

\* compare_config returned the empty diff after a commit that changed the
\* running configuration
C15_Witness ==
    /\ last.op = "compare_config"
    /\ cfg.state = "Committed"
    /\ cfg.running # cfg.prior
    /\ last.retDiff = {}

\* C16: a candidate with a typo is rejected, at load or at commit, with
\* ReplaceConfigException or MergeConfigException according to its mode;
\* the rejected call changes nothing of the configuration session; the
\* running configuration changes only by a successful commit or rollback;
\* so a replace candidate equal to the running configuration loaded
\* afterwards compares empty.
C16_RejectedCandidateLeavesNoTrace ==
    [][/\ (last'.op \in LoadOps \cup {"commit_config"}
             /\ last'.exc \in Rejections) => cfg' = cfg
       /\ (last'.op \in LoadOps /\ last'.exc \in Rejections) =>
             last'.exc = RejectionOf(ModeOf(last'.op)).type
       /\ (last'.op = "commit_config" /\ cfg.typo) =>
             /\ ~last'.returned
             /\ last'.exc = RejectionOf(cfg.mode).type
       /\ cfg'.running # cfg.running =>
             /\ last'.op \in {"commit_config", "rollback"}
             /\ last'.returned
             /\ ~cfg.typo
       /\ (/\ last'.op = "compare_config"
           /\ cfg.state = "CandidateLoaded"
           /\ cfg.mode = "replace"
           /\ cfg.candidate = cfg.running) => last'.retDiff = {}]_vars

\* a merge candidate with a typo was rejected at commit and the running
\* configuration is still the one of the last commit
C16_Witness ==
    /\ last.op = "commit_config"
    /\ last.exc = "MergeConfigException"
    /\ cfg.state = "CandidateLoaded"
    /\ cfg.typo
    /\ cfg.candidate # cfg.running

\* C17: with a candidate loaded compare_config returns the diff between
\* the running configuration and the candidate, non-empty when they
\* differ; discard_config never fails, leaves the running configuration
\* alone and ends in Discarded when a candidate was loaded; in Discarded
\* compare_config returns the empty diff and a further discard_config
\* changes nothing.
C17_DiscardPath ==
    [][/\ (last'.op = "compare_config" /\ cfg.state = "CandidateLoaded") =>
             /\ last'.retDiff = DiffText(cfg.running, cfg.candidate)
             /\ cfg.candidate # cfg.running => last'.retDiff # {}
       /\ (last'.op = "compare_config" /\ cfg.state = "Discarded") =>
             last'.retDiff = {}
       /\ last'.op = "discard_config" =>
             /\ last'.returned
             /\ last'.exc = ""
             /\ cfg'.running = cfg.running
             /\ cfg'.state = (IF cfg.state = "CandidateLoaded"
                              THEN "Discarded" ELSE cfg.state)
       /\ (last'.op = "discard_config" /\ cfg.state = "Discarded") =>
             cfg' = cfg]_vars

\* compare_config returned the empty diff after a discard
C17_Witness ==
    /\ last.op = "compare_config"
    /\ cfg.state = "Discarded"
    /\ last.retDiff = {}
    /\ cfg.candidate = {}

\* C18: a commit remembers the configuration it replaces; rollback from
\* Committed puts exactly that configuration back, whole, and ends in
\* Committed with nothing pending; nothing but a commit or a rollback
\* changes the running or the remembered configuration.
C18_Rollback ==
    [][/\ (last'.op = "commit_config" /\ last'.returned) =>
             cfg'.prior = cfg.running
       /\ last'.op = "rollback" =>
             /\ last'.returned
             /\ cfg'.running = cfg.prior
             /\ cfg'.state = "Committed"
             /\ cfg'.candidate = {}
       /\ last'.op \notin {"commit_config", "rollback"} =>
             /\ cfg'.running = cfg.running
             /\ cfg'.prior = cfg.prior]_vars

\* rollback() undid a commit that had changed the running configuration
C18_Witness ==
    /\ last.op = "rollback"
    /\ last.returned
    /\ cfg.state = "Committed"
    /\ cfg.running # cfg.prior

\* C19: the driver drops its session handle when the session is closed or
\* found dead: after close() returned, after is_alive probed the session
\* and did not answer alive, and after a command failed with
\* ConnectionClosedException, the driver holds no handle.
C19_DeadSessionDropped ==
    /\ (last.op = "close" /\ last.returned) =>
          drivers[last.drv].device = 0
    /\ (last.op = "is_alive" /\ last.io # <<>>
          /\ (last.exc # "" \/ ~last.retAlive)) =>
          drivers[last.drv].device = 0
    /\ (last.op \in CmdOps /\ last.exc = "ConnectionClosedException") =>
          drivers[last.drv].device = 0

\* C20: cli sends the commands in input order, one send per element, and
\* nothing after the first send that failed or whose post-processed output
\* carries a marker; when it returns, every element was sent and the
\* mapping has one key per distinct command, holding the post-processed
\* output of the last occurrence of that command; a non-list fails with
\* nothing sent.
C20_CliOrder ==
    last.op = "cli" =>
        LET io == last.io
            n  == Len(last.items)
        IN  /\ ~last.isList =>
                  /\ last.exc = "TypeError"
                  /\ io = <<>>
            /\ last.isList =>
                  /\ Len(io) <= n
                  /\ \A i \in 1..Len(io) :
                        /\ io[i].call = "send_command"
                        /\ io[i].cmds = <<last.items[i]>>
                  /\ \A i \in 1..(Len(io) - 1) :
                        /\ io[i].err = ""
                        /\ ~HasMarker(SendCommandPostprocess(io[i].out))
            /\ last.returned =>
                  /\ Len(io) = n
                  /\ DOMAIN last.retMap = {last.items[i] : i \in 1..n}
                  /\ \A i \in 1..n :
                        (\A j \in (i + 1)..n : last.items[j] # last.items[i])
                           => last.retMap[last.items[i]]
                                 = SendCommandPostprocess(io[i].out)

\* the same command twice with different answers: the mapping holds the
\* second answer
C20_Witness ==
    /\ last.op = "cli"
    /\ last.returned
    /\ last.items = <<"show uptime", "show uptime">>
    /\ last.io[1].out = <<CH>>
    /\ last.io[2].out = <<CH, CH>>
    /\ last.retMap["show uptime"] = <<CH, CH>>

\* C21: _send_command with a candidate list sends the candidates in list
\* order, the i-th send being the i-th element, so no element is sent
\* twice; every send before the last one was answered with a marked raw
\* output, so nothing is sent after the first accepted candidate; a send
\* that raises a transport error is the last one and the call fails with
\* ConnectionClosedException carrying the message of that error.
C21_FallbackProbing ==
    (last.op = "send_command" /\ last.isList) =>
        LET io == last.io
            n  == Len(last.items)
        IN  /\ Len(io) <= n
            /\ \A i \in 1..Len(io) :
                  /\ io[i].call = "send_command"
                  /\ io[i].cmds = <<last.items[i]>>
            /\ \A i \in 1..(Len(io) - 1) :
                  /\ io[i].err = ""
                  /\ HasMarker(io[i].out)
            /\ \A i \in FailedIO :
                  /\ i = Len(io)
                  /\ ~last.returned
                  /\ last.exc = "ConnectionClosedException"
                  /\ last.excMsg = io[i].msg

\* the first of two candidates meets a transport failure: the call fails
\* and the second candidate is not sent
C21_Witness ==
    /\ last.op = "send_command"
    /\ last.isList
    /\ last.items = <<"bogus-cmd", "show uptime">>
    /\ Len(last.io) = 1
    /\ last.io[1].cmds = <<"bogus-cmd">>
    /\ last.io[1].err = "socket.timeout"
    /\ last.exc = "ConnectionClosedException"
    /\ last.excMsg = "timed out"

\* ------------------------------------------- the post-processor on its own
InitNorm ==
    /\ drivers = <<>>
    /\ sessions = <<>>
    /\ held = {}
    /\ last = NoCall
    /\ text \in SeqsUpTo(Tokens, MaxLen)
    /\ hist = <<>>
    /\ cfg = NoConfigSession

\* The caller post-processes text, then post-processes the result again.
Postprocess ==
    /\ Len(hist) < 2
    /\ hist' = Append(hist, SendCommandPostprocess(
                                IF hist = <<>> THEN text ELSE hist[Len(hist)]))
    /\ UNCHANGED <<drivers, sessions, held, last, text, cfg>>

NextNorm == Postprocess

SpecNorm == InitNorm /\ [][NextNorm]_vars

\* C7: the post-processor is idempotent: applying it to its own result
\* gives that result again, for every text of banner and content lines.
C7_NormalizeIdempotent ==
    Len(hist) = 2 => hist[2] = hist[1]

====
